---- MODULE Spec2Model ----
(* Model of src/main.py: a Flask server with a liveness route and a route    *)
(* that probes the Unipile API once and relays the outcome.                  *)
(* Strings that the code inspects character by character (UNIPILE_DSN, the   *)
(* URL) are sequences of one-character strings; other strings are atoms.     *)
EXTENDS Integers, Sequences, FiniteSets, TLC

(* ---------------------------------------------------------------- bounds *)
MaxRequests == 2

Requests == 1..MaxRequests

(* ------------------------------------------------------------ environment *)
Absent == <<"<unset>">>

\* Values UNIPILE_DSN may have in the environment ("h" is any non-slash character).
EnvDsnValues ==
    { Absent, <<>>, <<"/">>, <<"/", "/">>,
      <<"h">>, <<"h", "/">>, <<"h", "/", "/">>, <<"/", "h">> }

\* Values UNIPILE_API_KEY may have in the environment.
EnvKeyValues == { Absent, <<>>, <<"k">> }

\* What one call of requests.get can produce: a Response (http.client accepts
\* status codes 100..999; one or two per class here) or a raised Exception.
Responses ==
    { [kind |-> "response", status_code |-> 200, text |-> "{\"items\":[]}"],
      [kind |-> "response", status_code |-> 200, text |-> "[]"],
      [kind |-> "response", status_code |-> 204, text |-> ""],
      [kind |-> "response", status_code |-> 101, text |-> ""],
      [kind |-> "response", status_code |-> 304, text |-> ""],
      [kind |-> "response", status_code |-> 401, text |-> "denied"],
      [kind |-> "response", status_code |-> 503, text |-> "unavailable"],
      [kind |-> "response", status_code |-> 600, text |-> ""] }

Exceptions ==
    { [kind |-> "raise", type |-> "ReadTimeout", args |-> <<"timed out">>],
      [kind |-> "raise", type |-> "ConnectionError", args |-> <<"refused">>],
      [kind |-> "raise", type |-> "MemoryError", args |-> <<>>] }

Outcomes == Responses \cup Exceptions

NoOutcome == [kind |-> "none"]
NoResponse == [status |-> 0, body |-> [none |-> TRUE]]

(* ---------------------------------------------------------- pure helpers *)
\* os.getenv(name, ""): the default "" stands in for an absent variable.
getenv(v) == IF v = Absent THEN <<>> ELSE v

\* A plausible slip: only one trailing slash is removed.
RECURSIVE rstrip(_)
rstripOnce(s) ==
    IF Len(s) > 0 /\ s[Len(s)] = "/" THEN SubSeq(s, 1, Len(s) - 1) ELSE s

\* str.rstrip("/"): removes every trailing "/".
rstrip(s) ==
    IF Len(s) > 0 /\ s[Len(s)] = "/" THEN rstrip(SubSeq(s, 1, Len(s) - 1)) ELSE s

\* A plausible slip: success taken to mean 2xx only.
ok2xx(status_code) == status_code >= 200 /\ status_code < 300

\* requests.Response.ok: raise_for_status() raises only for 400 <= status < 600.
ok(status_code) == ~(status_code >= 400 /\ status_code < 600)

\* A plausible slip: repr(e) instead of str(e).
repr(e) == e.type

\* str(e) of an exception: "" without arguments, the argument when there is one.
str(e) == IF Len(e.args) = 0 THEN "" ELSE e.args[1]

ApiPath == <<"/", "a", "p", "i", "/", "v", "1", "/", "a", "c", "c", "o", "u", "n", "t", "s">>

(* ------------------------------------------------------------------ state *)
VARIABLES
    env,              \* the process environment: [dsn, key]
    pc,               \* position of the main script
    UNIPILE_DSN,      \* module global, line 14
    UNIPILE_API_KEY,  \* module global, line 15
    fatal,            \* the exception that ended the script, "" if none
    startupProbes,    \* calls of ping_unipile made by the __main__ block
    console,          \* outcome printed by the __main__ block
    port,             \* port the server listens on, 0 when not listening
    sent,             \* distinct outbound requests handed to requests.get
    upstreamCalls,    \* number of requests.get invocations
    route,            \* per request: the path requested
    hpc,              \* per request: position of its handler
    calls,            \* per request: requests.get invocations made for it
    local,            \* per request: the handler's local r / e
    response          \* per request: what the handler returned

vars == <<env, pc, UNIPILE_DSN, UNIPILE_API_KEY, fatal, startupProbes, console,
          port, sent, upstreamCalls, route, hpc, calls, local, response>>

config == <<env, UNIPILE_DSN, UNIPILE_API_KEY>>
startup == <<pc, fatal, startupProbes, console, port>>
handlers == <<route, hpc, calls, local, response>>

Init ==
    /\ env \in [dsn : EnvDsnValues, key : EnvKeyValues]
    /\ pc = "start"
    /\ UNIPILE_DSN = <<>>
    /\ UNIPILE_API_KEY = <<>>
    /\ fatal = ""
    /\ startupProbes = 0
    /\ console = NoOutcome
    /\ port = 0
    /\ sent = {}
    /\ upstreamCalls = 0
    /\ route = [r \in Requests |-> ""]
    /\ hpc = [r \in Requests |-> "idle"]
    /\ calls = [r \in Requests |-> 0]
    /\ local = [r \in Requests |-> NoOutcome]
    /\ response = [r \in Requests |-> NoResponse]

(* ------------------------------------------------------------- operations *)
\* Lines 14-21: read the two variables, raise RuntimeError if either is empty.
LoadConfig ==
    /\ pc = "start"
    /\ UNIPILE_DSN' = rstrip(getenv(env.dsn))
    /\ UNIPILE_API_KEY' = getenv(env.key)
    /\ IF Len(UNIPILE_DSN') = 0 \/ Len(UNIPILE_API_KEY') = 0
          THEN pc' = "failed" /\ fatal' = "RuntimeError"
          ELSE pc' = "loaded" /\ fatal' = fatal
    /\ UNCHANGED <<env, startupProbes, console, port, sent, upstreamCalls>>
    /\ UNCHANGED handlers

\* A plausible slip: the path is appended after an extra slash.
ping_unipile_slash ==
    [method |-> "GET",
     url |-> UNIPILE_DSN \o <<"/">> \o ApiPath,
     headers |-> [XAPIKEY |-> UNIPILE_API_KEY, accept |-> "application/json"],
     timeout |-> 15]

\* Lines 40-46: the request ping_unipile hands to requests.get.
ping_unipile ==
    [method |-> "GET",
     url |-> UNIPILE_DSN \o ApiPath,
     headers |-> [XAPIKEY |-> UNIPILE_API_KEY, accept |-> "application/json"],
     timeout |-> 15]

\* Lines 92-94: the __main__ block calls ping_unipile.
StartupPing ==
    /\ pc = "loaded"
    /\ pc' = "probing"
    /\ startupProbes' = startupProbes + 1
    /\ sent' = sent \cup {ping_unipile}
    /\ upstreamCalls' = upstreamCalls + 1
    /\ UNCHANGED <<fatal, console, port>>
    /\ UNCHANGED config
    /\ UNCHANGED handlers

\* A plausible slip: no try/except around the startup probe.
StartupPingDoneUncaught(o) ==
    /\ pc = "probing"
    /\ console' = o
    /\ IF o.kind = "raise"
          THEN pc' = "failed" /\ fatal' = o.type
          ELSE pc' = "probed" /\ fatal' = fatal
    /\ UNCHANGED <<startupProbes, port, sent, upstreamCalls>>
    /\ UNCHANGED config
    /\ UNCHANGED handlers

\* Lines 94-98: requests.get returns or raises; either way the outcome is printed.
StartupPingDone(o) ==
    /\ pc = "probing"
    /\ console' = o
    /\ pc' = "probed"
    /\ UNCHANGED <<fatal, startupProbes, port, sent, upstreamCalls>>
    /\ UNCHANGED config
    /\ UNCHANGED handlers

\* Lines 100-101: app.run(port=5000).
AppRun ==
    /\ pc = "probed"
    /\ pc' = "listening"
    /\ port' = 5000
    /\ UNCHANGED <<fatal, startupProbes, console, sent, upstreamCalls>>
    /\ UNCHANGED config
    /\ UNCHANGED handlers

HomeBody ==
    [ok |-> TRUE, message |-> "Flask server is running", next_step |-> "/health/unipile"]

\* A plausible slip: the liveness route probes the upstream too.
HomePinging(r) ==
    /\ pc = "listening"
    /\ hpc[r] = "idle"
    /\ route' = [route EXCEPT ![r] = "/"]
    /\ hpc' = [hpc EXCEPT ![r] = "done"]
    /\ response' = [response EXCEPT ![r] = [status |-> 200, body |-> HomeBody]]
    /\ sent' = sent \cup {ping_unipile}
    /\ upstreamCalls' = upstreamCalls + 1
    /\ calls' = [calls EXCEPT ![r] = @ + 1]
    /\ UNCHANGED local
    /\ UNCHANGED config
    /\ UNCHANGED startup

\* Lines 54-64: GET /.
home(r) ==
    /\ pc = "listening"
    /\ hpc[r] = "idle"
    /\ route' = [route EXCEPT ![r] = "/"]
    /\ hpc' = [hpc EXCEPT ![r] = "done"]
    /\ response' = [response EXCEPT ![r] = [status |-> 200, body |-> HomeBody]]
    /\ UNCHANGED <<sent, upstreamCalls, calls, local>>
    /\ UNCHANGED config
    /\ UNCHANGED startup

\* Lines 67-73: GET /health/unipile enters the try block and calls ping_unipile,
\* which blocks in requests.get.
health_unipile_call(r) ==
    /\ pc = "listening"
    /\ hpc[r] = "idle"
    /\ route' = [route EXCEPT ![r] = "/health/unipile"]
    /\ hpc' = [hpc EXCEPT ![r] = "waiting"]
    /\ sent' = sent \cup {ping_unipile}
    /\ upstreamCalls' = upstreamCalls + 1
    /\ calls' = [calls EXCEPT ![r] = @ + 1]
    /\ UNCHANGED <<local, response>>
    /\ UNCHANGED config
    /\ UNCHANGED startup

\* Lines 46-47, 73, 80: requests.get returns a Response (bound to r) or raises
\* (bound to e) in the thread that handles the request.
health_unipile_return(r, o) ==
    /\ hpc[r] = "waiting"
    /\ hpc' = [hpc EXCEPT ![r] = "returned"]
    /\ local' = [local EXCEPT ![r] = o]
    /\ UNCHANGED <<route, calls, response, sent, upstreamCalls>>
    /\ UNCHANGED config
    /\ UNCHANGED startup

\* A plausible slip: the upstream status is always relayed as the outer status.
health_envelope_relay(o) ==
    IF o.kind = "response"
       THEN [status |-> o.status_code,
             body |-> [ok |-> ok(o.status_code), status_code |-> o.status_code,
                       response |-> o.text]]
       ELSE [status |-> 500, body |-> [ok |-> FALSE, error |-> str(o)]]

\* A plausible slip: a failed probe is answered with 200.
health_envelope_error200(o) ==
    IF o.kind = "response"
       THEN [status |-> IF ok(o.status_code) THEN 200 ELSE o.status_code,
             body |-> [ok |-> ok(o.status_code), status_code |-> o.status_code,
                       response |-> o.text]]
       ELSE [status |-> 200, body |-> [ok |-> FALSE, error |-> str(o)]]

\* Lines 74-84: the (body, status) pair the handler returns for an outcome.
health_envelope(o) ==
    IF o.kind = "response"
       THEN [status |-> IF ok(o.status_code) THEN 200 ELSE o.status_code,
             body |-> [ok |-> ok(o.status_code), status_code |-> o.status_code,
                       response |-> o.text]]
       ELSE [status |-> 500, body |-> [ok |-> FALSE, error |-> str(o)]]

\* A plausible slip: the result is kept in a variable shared by all handlers.
health_unipile_respond_shared(r) ==
    /\ hpc[r] = "returned"
    /\ hpc' = [hpc EXCEPT ![r] = "done"]
    /\ LET others == {q \in Requests : q # r /\ local[q] # NoOutcome}
           src == IF others = {} THEN r ELSE CHOOSE q \in others : TRUE
       IN response' = [response EXCEPT ![r] = health_envelope(local[src])]
    /\ UNCHANGED <<route, calls, local, sent, upstreamCalls>>
    /\ UNCHANGED config
    /\ UNCHANGED startup

\* A plausible slip: a failed probe is retried.
health_unipile_respond_retry(r) ==
    /\ hpc[r] = "returned"
    /\ IF local[r].kind = "raise" /\ calls[r] < 2
          THEN /\ hpc' = [hpc EXCEPT ![r] = "waiting"]
               /\ calls' = [calls EXCEPT ![r] = @ + 1]
               /\ upstreamCalls' = upstreamCalls + 1
               /\ sent' = sent \cup {ping_unipile}
               /\ UNCHANGED response
          ELSE /\ hpc' = [hpc EXCEPT ![r] = "done"]
               /\ response' = [response EXCEPT ![r] = health_envelope(local[r])]
               /\ UNCHANGED <<calls, upstreamCalls, sent>>
    /\ UNCHANGED <<route, local>>
    /\ UNCHANGED config
    /\ UNCHANGED startup

\* Lines 74-84: the handler builds its answer from its own r or e and returns.
health_unipile_respond(r) ==
    /\ hpc[r] = "returned"
    /\ hpc' = [hpc EXCEPT ![r] = "done"]
    /\ response' = [response EXCEPT ![r] = health_envelope(local[r])]
    /\ UNCHANGED <<route, calls, local, sent, upstreamCalls>>
    /\ UNCHANGED config
    /\ UNCHANGED startup

Next ==
    \/ LoadConfig
    \/ StartupPing
    \/ \E o \in Outcomes : StartupPingDone(o)
    \/ AppRun
    \/ \E r \in Requests : home(r)
    \/ \E r \in Requests : health_unipile_call(r)
    \/ \E r \in Requests, o \in Outcomes : health_unipile_return(r, o)
    \/ \E r \in Requests : health_unipile_respond(r)

Spec == Init /\ [][Next]_vars

\* The main script runs its statements in order and requests.get returns or
\* raises within its timeout, so each startup step that is enabled is taken.
FairSpec ==
    /\ Init
    /\ [][Next]_vars
    /\ WF_vars(LoadConfig)
    /\ WF_vars(StartupPing)
    /\ WF_vars(\E o \in Outcomes : StartupPingDone(o))
    /\ WF_vars(AppRun)

(* ================================================================ claims *)

\* C1 (as stated): every non-2xx upstream response (1xx, 3xx, 4xx, 5xx, ...) is
\* answered with the upstream status as outer status and ok:false.
C1_NonSuccessRelayed_Original ==
    \A r \in Requests :
        (hpc[r] = "done" /\ route[r] = "/health/unipile" /\ local[r].kind = "response"
            /\ ~(local[r].status_code >= 200 /\ local[r].status_code <= 299))
        => (response[r].status = local[r].status_code /\ response[r].body.ok = FALSE)

\* C1 (amended): an upstream response with status 400..599 is answered with the
\* upstream status as outer status and ok:false; a non-2xx response with any
\* other status (1xx, 3xx, 600 and above) is answered with 200 and ok:true.
C1_NonSuccessRelayed ==
    \A r \in Requests :
        (hpc[r] = "done" /\ route[r] = "/health/unipile" /\ local[r].kind = "response"
            /\ ~(local[r].status_code >= 200 /\ local[r].status_code <= 299))
        => IF local[r].status_code >= 400 /\ local[r].status_code <= 599
              THEN response[r].status = local[r].status_code /\ response[r].body.ok = FALSE
              ELSE response[r].status = 200 /\ response[r].body.ok = TRUE

C1_Witness ==
    \E r, q \in Requests :
        /\ hpc[r] = "done" /\ local[r].kind = "response" /\ local[r].status_code = 401
        /\ response[r].status = 401
        /\ hpc[q] = "done" /\ local[q].kind = "response" /\ local[q].status_code = 304
        /\ response[q].status = 200

\* C2: every 2xx upstream response is answered with outer status 200 and a body
\* with ok true, the upstream status code and the upstream body text.
C2_SuccessEnvelope ==
    \A r \in Requests :
        (hpc[r] = "done" /\ route[r] = "/health/unipile" /\ local[r].kind = "response"
            /\ local[r].status_code >= 200 /\ local[r].status_code <= 299)
        => /\ response[r].status = 200
           /\ response[r].body = [ok |-> TRUE, status_code |-> local[r].status_code,
                                  response |-> local[r].text]

C2_Witness ==
    \E r, q \in Requests :
        /\ hpc[r] = "done" /\ local[r].kind = "response" /\ local[r].status_code = 204
        /\ response[r].status = 200
        /\ hpc[q] = "done" /\ local[q].kind = "response"
        /\ response[q].body = [ok |-> TRUE, status_code |-> 200, response |-> "{\"items\":[]}"]

\* C3 (as stated): a probe that raises is answered with 500, ok:false and a
\* non-empty error string, and the server goes on listening.
C3_ExceptionAnswered_Original ==
    \A r \in Requests :
        (hpc[r] = "done" /\ route[r] = "/health/unipile" /\ local[r].kind = "raise")
        => /\ response[r].status = 500
           /\ response[r].body.ok = FALSE
           /\ response[r].body.error # ""
           /\ pc = "listening" /\ fatal = ""

\* C3 (amended): a probe that raises an Exception is answered with 500, ok:false
\* and an error string that is the exception's message, empty when the exception
\* carries none; the server goes on listening.
C3_ExceptionAnswered ==
    \A r \in Requests :
        (hpc[r] = "done" /\ route[r] = "/health/unipile" /\ local[r].kind = "raise")
        => /\ response[r].status = 500
           /\ response[r].body.ok = FALSE
           /\ \/ local[r].args = <<>> /\ response[r].body.error = ""
              \/ local[r].args # <<>> /\ response[r].body.error = local[r].args[1]
           /\ pc = "listening" /\ fatal = ""

C3_Witness ==
    \E r, q \in Requests :
        /\ hpc[r] = "done" /\ local[r].kind = "raise" /\ local[r].type = "MemoryError"
        /\ response[r].body.error = ""
        /\ hpc[q] = "done" /\ local[q].kind = "raise" /\ local[q].type = "ReadTimeout"
        /\ response[q].body.error = "timed out"

\* C4: with UNIPILE_DSN or UNIPILE_API_KEY empty or absent (a UNIPILE_DSN made of
\* slashes only included) the script ends in RuntimeError and never probes,
\* listens or serves.
C4_InvalidConfigNeverServes ==
    (\/ env.dsn = Absent
     \/ env.key = Absent
     \/ env.key = <<>>
     \/ \A i \in 1..Len(env.dsn) : env.dsn[i] = "/")
    => /\ pc \in {"start", "failed"}
       /\ pc = "failed" => fatal = "RuntimeError"
       /\ port = 0
       /\ startupProbes = 0 /\ upstreamCalls = 0 /\ sent = {}
       /\ \A r \in Requests : hpc[r] = "idle" /\ response[r] = NoResponse

C4_Witness ==
    pc = "failed" /\ fatal = "RuntimeError" /\ env.dsn = <<"/", "/">> /\ env.key = <<"k">>

\* C5: a GET / request is answered with 200 and the fixed body, issues no
\* upstream call and changes nothing but that request's own answer.
C5_HomePure ==
    [][\A r \in Requests :
          (hpc[r] = "idle" /\ route'[r] = "/")
          => /\ response'[r] =
                   [status |-> 200,
                    body |-> [ok |-> TRUE, message |-> "Flask server is running",
                              next_step |-> "/health/unipile"]]
             /\ hpc'[r] = "done"
             /\ UNCHANGED <<sent, upstreamCalls, calls, local, config, startup>>
             /\ \A q \in Requests \ {r} :
                    /\ response'[q] = response[q]
                    /\ hpc'[q] = hpc[q]
                    /\ route'[q] = route[q]]_vars

C5_Witness ==
    \E r, q \in Requests :
        /\ route[r] = "/" /\ hpc[r] = "done" /\ response[r].status = 200
        /\ calls[r] = 0
        /\ route[q] = "/health/unipile" /\ local[q].kind = "raise"

C7_OutboundRequest ==
    /\ Cardinality(sent) <= 1
    /\ \A q \in sent :
          /\ q.method = "GET"
          /\ q.headers.XAPIKEY = env.key
          /\ \E n \in 0..Len(env.dsn) :
                /\ q.url = SubSeq(env.dsn, 1, n) \o ApiPath
                /\ n > 0 => env.dsn[n] # "/"
                /\ \A i \in (n + 1)..Len(env.dsn) : env.dsn[i] = "/"

C7_Witness ==
    /\ env.dsn = <<"h", "/">>
    /\ \E r, q \in Requests : r # q /\ calls[r] = 1 /\ calls[q] = 1
    /\ \E q \in sent : q.url = <<"h">> \o ApiPath

\* C8: each GET /health/unipile request makes exactly one upstream call, also
\* after a non-2xx response or an exception; other requests make none.
C8_SingleAttempt ==
    \A r \in Requests :
        /\ route[r] = "/health/unipile" => calls[r] = 1
        /\ route[r] # "/health/unipile" => calls[r] = 0

C8_Witness ==
    \E r, q \in Requests :
        /\ hpc[r] = "done" /\ local[r].kind = "raise" /\ calls[r] = 1
        /\ hpc[q] = "done" /\ local[q].kind = "response" /\ local[q].status_code = 503
        /\ calls[q] = 1

\* C9: N health requests cause N upstream calls, and each answer is built from
\* the outcome of the request's own call.
C9_IndependentRequests ==
    /\ upstreamCalls =
          startupProbes + Cardinality({r \in Requests : route[r] = "/health/unipile"})
    /\ \A r \in Requests :
          (hpc[r] = "done" /\ route[r] = "/health/unipile")
          => IF local[r].kind = "response"
                THEN /\ "status_code" \in DOMAIN response[r].body
                     /\ response[r].body.status_code = local[r].status_code
                     /\ response[r].body.response = local[r].text
                ELSE /\ "error" \in DOMAIN response[r].body
                     /\ response[r].status = 500

C9_Witness ==
    \E r, q \in Requests :
        /\ r # q
        /\ hpc[q] = "returned" /\ local[q].kind = "raise"
        /\ hpc[r] = "done" /\ local[r].kind = "response" /\ local[r].status_code = 200
        /\ response[r].status = 200
        /\ upstreamCalls = 3

\* C10: in every answer of GET /health/unipile ok is true exactly when the outer
\* status is 200; an error body has outer status 500; a body with status_code
\* and response has outer status 200 or the upstream status.
C10_EnvelopeConsistent ==
    \A r \in Requests :
        (hpc[r] = "done" /\ route[r] = "/health/unipile")
        => /\ response[r].body.ok = TRUE <=> response[r].status = 200
           /\ "error" \in DOMAIN response[r].body => response[r].status = 500
           /\ "status_code" \in DOMAIN response[r].body =>
                 /\ "response" \in DOMAIN response[r].body
                 /\ response[r].status \in {200, local[r].status_code}

C10_Witness ==
    \E r, q \in Requests :
        /\ hpc[r] = "done" /\ local[r].kind = "raise" /\ response[r].status = 500
        /\ hpc[q] = "done" /\ local[q].kind = "response" /\ local[q].status_code = 600
        /\ response[q].status = 200

====
